---- MODULE Spec2Model ----
(***************************************************************************)
(* A model of the hazard core of oq-engine:                                *)
(*   - the ProbabilityMap merge algebra used to fold partial results,      *)
(*   - the UCERF classical tasks and UcerfPSHACalculator.execute           *)
(*     (openquake/calculators/ucerf_classical.py),                         *)
(*   - the rupture sampler of BaseSeismicSource                            *)
(*     (openquake/hazardlib/source/base.py),                               *)
(*   - MultiGMPE (openquake/hazardlib/gsim/multi.py),                      *)
(*   - logging over AMQP (openquake/logs.py).                              *)
(* Probabilities are exact dyadic rationals <<n, d>> (d a power of two);   *)
(* on such values, with the few factors used here, the float64 arithmetic  *)
(* of the code is exact as well.                                           *)
(***************************************************************************)
EXTENDS Integers, Sequences, FiniteSets, TLC

VARIABLES
    \* ---- merge algebra (SpecMerge) ----
    mA, mB, mC,        \* three ProbabilityMaps of the same shape
    mOut,              \* results of the merges applied to them
    mpc                \* position of the algebra harness

VARIABLES
    \* ---- rupture sampling (SpecSample) ----
    serial,            \* source id -> BaseSeismicSource.serial
    rng,               \* the state of the process-wide numpy.random generator
    gens,              \* slot -> the generator object sample_ruptures returned
    one                \* outcome of the last get_one_rupture call

VARIABLES
    \* ---- UCERF classical calculator (Spec, SpecSplit) ----
    cfg,               \* oqparam, logic tree size and how Starmap runs tasks
    sp,                \* rupture-set task run on two chunks and on the whole
    pc,                \* where UcerfPSHACalculator.execute stands
    heap,              \* the UcerfSource objects: originals, pickled copies
    tasks,             \* the submitted tasks, in dispatch order
    acc,               \* the accumulator of execute
    folded,            \* the tasks whose result was folded, in fold order
    src_filter         \* the number of SourceFilter objects execute has built

VARIABLES
    \* ---- source conversion in pre_execute (SpecPre) ----
    conv               \* the source node, the configured time span, the result

VARIABLES
    \* ---- a parametric source object (SpecSource) ----
    psrc               \* its construction, its fields, the modify_* calls

VARIABLES
    \* ---- MultiGMPE (SpecGmpe) ----
    gm                 \* the class attributes and the instances constructed

VARIABLES
    \* ---- logging over AMQP (SpecLogs) ----
    lg                 \* root handlers, AMQPHandler._MDC, what was published

mergeVars == <<mA, mB, mC, mOut, mpc>>
sampleVars == <<serial, rng, gens, one>>
execVars == <<pc, heap, tasks, acc, folded, src_filter>>
calcVars == <<cfg, sp, pc, heap, tasks, acc, folded, src_filter>>

auxVars == <<conv, psrc, gm, lg>>
auxButConv == <<psrc, gm, lg>>
auxButPsrc == <<conv, gm, lg>>
auxButGm == <<conv, psrc, lg>>
auxButLg == <<conv, psrc, gm>>

vars == <<mA, mB, mC, mOut, mpc, serial, rng, gens, one,
          cfg, sp, pc, heap, tasks, acc, folded, src_filter,
          conv, psrc, gm, lg>>

\* the harnesses that are not running
AuxOff == conv = << >> /\ psrc = << >> /\ gm = << >> /\ lg = << >>
AuxOffButConv == psrc = << >> /\ gm = << >> /\ lg = << >>
AuxOffButPsrc == conv = << >> /\ gm = << >> /\ lg = << >>
AuxOffButGm == conv = << >> /\ psrc = << >> /\ lg = << >>
AuxOffButLg == conv = << >> /\ psrc = << >> /\ gm = << >>

(***************************************************************************)
(* Bounds                                                                  *)
(***************************************************************************)
\* number of intensity measure levels, len(imtls.array)
NumLevels == 2
\* number of ground motion models, len(gsims)
NumGsims == 1
\* number of sites of the site collection
NumSites == 2

Levels == 1..NumLevels
Gsims == 1..NumGsims
Sites == 1..NumSites
Cells == Levels \X Gsims

(***************************************************************************)
(* Probabilities: dyadic rationals n/d, 0 <= n <= d                        *)
(***************************************************************************)
RECURSIVE PNorm(_, _)
PNorm(n, d) ==
    IF n = 0 THEN <<0, 1>>
    ELSE IF n % 2 = 0 /\ d % 2 = 0 THEN PNorm(n \div 2, d \div 2)
    ELSE <<n, d>>

\* a * b
PMul(a, b) == PNorm(a[1] * b[1], a[2] * b[2])

\* 1 - a
PCompl(a) == PNorm(a[2] - a[1], a[2])

\* the probabilities the ground motion evaluator hands back in this model
PoeVals == << <<1, 2>>, <<1, 4>>, <<3, 4>>, <<0, 1>>, <<1, 1>> >>
\* number of different curves the merged maps are built from
NumCurves == 2

(***************************************************************************)
(* ProbabilityCurve and ProbabilityMap                                     *)
(***************************************************************************)
\* mutant: 1 - (1 - a) * b, the complement of the right operand is forgotten
PoeOrSkew(a, b) == PCompl(PMul(PCompl(a), b))

\* ProbabilityCurve.__or__ on one cell: 1 - (1 - a) * (1 - b)
PoeOr(a, b) == PCompl(PMul(PCompl(a), PCompl(b)))

\* ProbabilityCurve.__or__ : elementwise over (level, gsim)
CurveOr(c1, c2) == [x \in Cells |-> PoeOr(c1[x], c2[x])]

\* a curve of the given shape with probability of exceedance 0 everywhere
ZeroCurve == [x \in Cells |-> <<0, 1>>]

\* the k-th input curve: its cells run through PoeVals starting at k
InputCurve(k) ==
    [x \in Cells |-> PoeVals[((k + x[1] + x[2] - 3) % Len(PoeVals)) + 1]]

InputCurves == {InputCurve(k) : k \in 1..NumCurves}

\* ProbabilityMap(numLevels, numGsims): no site yet
ProbabilityMap == << >>

\* the ProbabilityMaps over the sites, each present site with an input curve
InputMaps ==
    UNION {[S -> InputCurves] : S \in SUBSET Sites}

\* ProbabilityMap.__ior__ : self |= other
\* sites of both are combined with CurveOr, sites of other alone are copied
PmapOr(self, other) ==
    [s \in (DOMAIN self) \cup (DOMAIN other) |->
        IF s \in DOMAIN self /\ s \in DOMAIN other
            THEN CurveOr(self[s], other[s])
        ELSE IF s \in DOMAIN self THEN self[s]
        ELSE other[s]]

\* mutant: the result of poe_map is never merged into the fresh map
HazardCurvesPmapFresh(upmap) == ProbabilityMap

\* _hazard_curves_per_rupture_subset: pmap = ProbabilityMap(...) and then
\* pmap |= upmap, the curves of the map it returns
HazardCurvesPmap(upmap) == PmapOr(ProbabilityMap, upmap)

(***************************************************************************)
(* SpecMerge: the merge applied to three maps                              *)
(***************************************************************************)
NoOut == [ab |-> << >>, ba |-> << >>, ab_c |-> << >>, a_bc |-> << >>,
          idA |-> << >>, aId |-> << >>]

MergeInit ==
    /\ mA \in InputMaps
    /\ mB \in InputMaps
    /\ mC \in InputMaps
    /\ mOut = NoOut
    /\ mpc = "start"
    /\ serial = << >> /\ rng = 0 /\ gens = << >> /\ one = << >>
    /\ cfg = << >> /\ sp = << >>
    /\ pc = "off" /\ heap = << >> /\ tasks = << >> /\ acc = << >>
    /\ folded = << >>
    /\ src_filter = 0
    /\ AuxOff

\* merge(A,B), merge(B,A), merge(merge(A,B),C), merge(A,merge(B,C)),
\* the fresh map of _hazard_curves_per_rupture_subset merged with A, and A
\* merged with a fresh map
ApplyMerge ==
    /\ mpc = "start"
    /\ mOut' = [ab   |-> PmapOr(mA, mB),
                ba   |-> PmapOr(mB, mA),
                ab_c |-> PmapOr(PmapOr(mA, mB), mC),
                a_bc |-> PmapOr(mA, PmapOr(mB, mC)),
                idA  |-> HazardCurvesPmap(mA),
                aId  |-> PmapOr(mA, ProbabilityMap)]
    /\ mpc' = "merged"
    /\ UNCHANGED <<mA, mB, mC>>
    /\ UNCHANGED <<sampleVars, calcVars, auxVars>>

MergeNext == ApplyMerge

SpecMerge == MergeInit /\ [][MergeNext]_vars

(***************************************************************************)
(* C3: the merge pmap |= other is commutative and associative: for all     *)
(* maps A, B, C of the same shape merge(A,B) = merge(B,A) and              *)
(* merge(merge(A,B),C) = merge(A,merge(B,C)).                              *)
(***************************************************************************)
C3_MergeCommAssoc ==
    mpc = "merged" =>
        /\ mOut.ab = mOut.ba
        /\ mOut.ab_c = mOut.a_bc

\* three maps sharing a site with probabilities strictly between 0 and 1
\* have been merged
C3_Witness ==
    /\ mpc = "merged"
    /\ \E s \in Sites : \E x \in Cells :
          /\ s \in DOMAIN mA /\ s \in DOMAIN mB /\ s \in DOMAIN mC
          /\ mA[s][x] = <<1, 2>> /\ mB[s][x] = <<1, 4>> /\ mC[s][x] = <<1, 2>>
          /\ mOut.ab_c[s][x] = <<13, 16>>

(***************************************************************************)
(* C4: a freshly constructed ProbabilityMap is the identity of the merge:  *)
(* merging the fresh map with any map A of the same shape yields A, so the *)
(* map _hazard_curves_per_rupture_subset returns has exactly the           *)
(* probabilities poe_map computed.                                         *)
(***************************************************************************)
C4_FreshMapIdentity ==
    mpc = "merged" =>
        /\ mOut.idA = mA
        /\ mOut.aId = mA

\* a map holding a site with a probability strictly between 0 and 1 went
\* through the merge with the fresh map
C4_Witness ==
    /\ mpc = "merged"
    /\ \E s \in DOMAIN mA : \E x \in Cells : mA[s][x] = <<1, 4>>
    /\ mOut.idA # ProbabilityMap

(***************************************************************************)
(* Rupture sampling: BaseSeismicSource.sample_ruptures and its helpers     *)
(***************************************************************************)
\* the generator of numpy.random has RngMod states
RngMod == 8
\* largest eff_num_ses a caller passes
MaxSes == 2
\* number of get_one_rupture calls in a run of the model
MaxOneCalls == 1

RngStates == 0..(RngMod - 1)
\* the generator objects of the model: two sampling runs
Slots == {1, 2}

\* the serial of a source that init_serials never set, and one it set
DefaultSerial == 0
AssignedSerial == 5
SerialVals == {DefaultSerial, AssignedSerial}

\* The sources sampled here.  Rates are in units of 1/4 event per year,
\* probabilities of nodal planes and hypocentres in halves, the mutex
\* weight and the thresholds of a rupture's pmf in units of 1/RngMod.
\*   fault    : a Poissonian source without nodal_plane_distribution,
\*              two ruptures, member of two source groups
\*   area     : a Poissonian source enumerating (mag, nodal plane, depth)
\*   nonparam : a time-dependent source with mutex weight 1/2
\*   nonparam1: a time-dependent source without mutex weight
SourceIds == {"fault", "area", "nonparam", "nonparam1"}

Source(id) ==
    CASE id = "fault" ->
           [kind |-> "fault", tom |-> TRUE, time_span |-> 1,
            grp_id |-> [int |-> FALSE, v |-> <<0, 1>>], seed |-> << >>,
            rates |-> <<4, 2>>]
      [] id = "area" ->
           [kind |-> "multi", tom |-> TRUE, time_span |-> 1,
            grp_id |-> [int |-> TRUE, v |-> -1], seed |-> <<3>>, min_mag |-> 6,
            mfd |-> << <<5, 8>>, <<6, 8>> >>,
            nodal_plane_distribution |-> << <<2, "np1">> >>,
            hypocenter_distribution |-> << <<1, 5>>, <<1, 10>> >>]
      [] id = "nonparam" ->
           [kind |-> "nonparam", tom |-> FALSE,
            grp_id |-> [int |-> TRUE, v |-> 1], seed |-> <<2>>, mutex_weight |-> 4,
            pmfs |-> << <<4, 6>>, <<2, 7>> >>]
      [] OTHER ->
           [kind |-> "nonparam", tom |-> FALSE,
            grp_id |-> [int |-> FALSE, v |-> <<0, 2>>], seed |-> <<2>>, mutex_weight |-> RngMod,
            pmfs |-> << <<4, 6>>, <<6, 8>> >>]

\* BaseSeismicSource.grp_ids: [grp_id] if isinstance(grp_id, int) else grp_id
\* (grp_id.int tells an int from a list; seed is << >> while it is None)
grp_ids(src) ==
    IF src.grp_id.int THEN <<src.grp_id.v>> ELSE src.grp_id.v

\* numpy.random.seed(s)
Seed(s) == s % RngMod

\* one step of the generator: the state after a draw, which is also the
\* uniform value drawn, u / RngMod
Advance(r) == (5 * r + 3) % RngMod

\* numpy.random.poisson(lam) for one mean, from the uniform value u:
\* lam is in units of 1/4
PoissonCount(u, lam) == (u * lam) \div (2 * RngMod)

\* rup.sample_number_of_occurrences for one repeat, from the uniform value
\* u: pmf = <<t1, t2>> gives 0 below t1, 1 below t2 and 2 from t2 on
PmfCount(u, pmf) == IF u < pmf[1] THEN 0 ELSE IF u < pmf[2] THEN 1 ELSE 2

\* mutant: the count and the mean change places
PoissonProbaSwapped(lam, k) == <<"poisson", k, lam>>

\* numpy.exp(occurs * numpy.log(lambda_) - lambda_ - loggamma(occurs + 1)),
\* kept as the pair it is a function of
PoissonProba(lam, k) == <<"poisson", lam, k>>

\* rup.proba_number_of_occurrences(num_occ), kept symbolic in the same way
PmfProba(i, k) == <<"pmf", i, k>>

\* mutant: every candidate is yielded, whatever its count
OccursAlways(num_occ) == TRUE

\* `if num_occ:` guarding each yield of the samplers
Occurs(num_occ) == num_occ # 0

\* the candidate ruptures of a Poissonian source with their rates
\* (fault: iter_ruptures; multi: the (mag, nodal plane, depth) combinations
\* with mag >= min_mag, rate = mag_occ_rate * np_prob * hc_prob)
RECURSIVE Combos(_, _, _, _)
Combos(src, mi, ni, hi) ==
    IF mi > Len(src.mfd) THEN << >>
    ELSE IF src.mfd[mi][1] < src.min_mag THEN Combos(src, mi + 1, 1, 1)
    ELSE IF ni > Len(src.nodal_plane_distribution)
        THEN Combos(src, mi + 1, 1, 1)
    ELSE IF hi > Len(src.hypocenter_distribution)
        THEN Combos(src, mi, ni + 1, 1)
    ELSE << [mag |-> src.mfd[mi][1],
             np |-> src.nodal_plane_distribution[ni][2],
             hc_depth |-> src.hypocenter_distribution[hi][2],
             rate |-> (src.mfd[mi][2]
                        * src.nodal_plane_distribution[ni][1]
                        * src.hypocenter_distribution[hi][1]) \div 4] >>
         \o Combos(src, mi, ni, hi + 1)

Candidates(src) ==
    CASE src.kind = "fault" ->
           [i \in 1..Len(src.rates) |-> [idx |-> i, rate |-> src.rates[i]]]
      [] src.kind = "multi" -> Combos(src, 1, 1, 1)
      [] OTHER -> [i \in 1..Len(src.pmfs) |-> [idx |-> i, pmf |-> src.pmfs[i]]]

\* numpy.random.poisson(lambda_) on the vector of means: one draw per
\* candidate, in order.  Returns the counts and the generator state.
RECURSIVE PoissonVec(_, _, _, _)
PoissonVec(cands, i, mult, r) ==
    IF i > Len(cands) THEN [occ |-> << >>, rng |-> r]
    ELSE LET u == Advance(r)
             rest == PoissonVec(cands, i + 1, mult, u)
         IN  [occ |-> <<PoissonCount(u, cands[i].rate * mult)>> \o rest.occ,
              rng |-> rest.rng]

\* rup.sample_number_of_occurrences(eff_num_ses): one draw per repeat
RECURSIVE SampleOccurrences(_, _, _)
SampleOccurrences(pmf, n, r) ==
    IF n = 0 THEN [occ |-> << >>, rng |-> r, aux |-> << >>]
    ELSE LET u == Advance(r)
             rest == SampleOccurrences(pmf, n - 1, u)
         IN  [occ |-> <<PmfCount(u, pmf)>> \o rest.occ, rng |-> rest.rng,
              aux |-> << >>]

\* mutant: an occurrence is kept when the draw equals the mutex weight
RECURSIVE MutexThinUpTo(_, _, _, _)
MutexThinUpTo(occurs, i, w, r) ==
    IF i > Len(occurs) THEN [occ |-> << >>, rng |-> r, aux |-> << >>]
    ELSE LET u == Advance(r)
             rest == MutexThinUpTo(occurs, i + 1, w, u)
         IN  [occ |-> <<IF u <= w THEN occurs[i] ELSE 0>> \o rest.occ,
              rng |-> rest.rng, aux |-> <<u>> \o rest.aux]

\* aux = numpy.random.random(eff_num_ses); occurs *= (aux < mutex_weight)
\* (aux is returned with the thinned counts)
RECURSIVE MutexThin(_, _, _, _)
MutexThin(occurs, i, w, r) ==
    IF i > Len(occurs) THEN [occ |-> << >>, rng |-> r, aux |-> << >>]
    ELSE LET u == Advance(r)
             rest == MutexThin(occurs, i + 1, w, u)
         IN  [occ |-> <<IF u < w THEN occurs[i] ELSE 0>> \o rest.occ,
              rng |-> rest.rng, aux |-> <<u>> \o rest.aux]

RECURSIVE SumSeq(_)
SumSeq(s) == IF s = << >> THEN 0 ELSE Head(s) + SumSeq(Tail(s))

\* the generator object sample_ruptures(eff_num_ses) returns, before its
\* first step: nothing of the body has run yet
NewGen(id, n) ==
    [src |-> id, n |-> n, pc |-> "created", gi |-> 1, ri |-> 0,
     rup_id |-> 0, occ |-> << >>, out |-> << >>, drawn |-> << >>,
     thin |-> << >>, disturbed |-> FALSE]

NoGen == [NewGen("fault", 0) EXCEPT !.pc = "none"]

\* mutant: the generator is not reseeded when the sampling starts
StartRngKeep(id, r) == r

\* numpy.random.seed(self.serial) at the start of sample_ruptures
StartRng(id, r) == Seed(serial[id])

\* mutant: the running identifier is not incremented
NextRupIdStuck(g) == g.rup_id

\* rup.rup_id = rup_id; rup_id += 1
NextRupId(g) == g.rup_id + 1

\* the entry yielded for candidate g.ri of group g.gi
Entry(g, num_occ, proba_occ) ==
    [rup |-> g.ri, rup_id |-> g.rup_id, grp_id |-> grp_ids(Source(g.src))[g.gi],
     num_occ |-> num_occ, proba_occ |-> proba_occ]

\* the counts drawn for all candidates of a group, as history entries
DrawnOf(gi, occ) == [i \in 1..Len(occ) |-> <<gi, i, occ[i]>>]

\* One step of the generator: the body of sample_ruptures (with
\* _sample_ruptures and sample_ruptures_poissonian inlined) from where it
\* stands to its next yield, or to its end.  m = [g |-> generator, rng |->
\* state of numpy.random]
RECURSIVE RunToYield(_)
RunToYield(m) ==
    LET g == m.g
        src == Source(g.src)
        cands == Candidates(src)
    IN
    IF g.gi > Len(grp_ids(src)) THEN [m EXCEPT !.g.pc = "done"]
    ELSE IF g.ri = 0 THEN
        \* _sample_ruptures starts for this group
        IF src.tom
        THEN LET v == PoissonVec(cands, 1, src.time_span * g.n, m.rng)
             IN  RunToYield([g |-> [g EXCEPT !.ri = 1, !.occ = v.occ,
                                       !.drawn = @ \o DrawnOf(g.gi, v.occ)],
                             rng |-> v.rng])
        ELSE RunToYield([m EXCEPT !.g.ri = 1])
    ELSE IF g.ri > Len(cands) THEN
        RunToYield([m EXCEPT !.g.gi = @ + 1, !.g.ri = 0, !.g.occ = << >>])
    ELSE IF src.tom THEN
        LET num_occ == g.occ[g.ri]
            lam == cands[g.ri].rate * src.time_span * g.n
        IN  IF Occurs(num_occ)
            THEN [m EXCEPT !.g.out = Append(@, Entry(g, num_occ,
                                              PoissonProba(lam, num_occ))),
                           !.g.rup_id = NextRupId(g),
                           !.g.ri = @ + 1]
            ELSE RunToYield([m EXCEPT !.g.ri = @ + 1])
    ELSE
        LET s1 == SampleOccurrences(cands[g.ri].pmf, g.n, m.rng)
            s2 == IF src.mutex_weight < RngMod
                  THEN MutexThin(s1.occ, 1, src.mutex_weight, s1.rng)
                  ELSE [s1 EXCEPT !.aux = << >>]
            num_occ == SumSeq(s2.occ)
            g1 == [g EXCEPT !.drawn = Append(@, <<g.gi, g.ri, num_occ>>),
                            !.thin = Append(@, [gi |-> g.gi, ri |-> g.ri,
                                                base |-> s1.occ,
                                                aux |-> s2.aux,
                                                occ |-> s2.occ])]
        IN  IF Occurs(num_occ)
            THEN [g |-> [g1 EXCEPT !.out = Append(@, Entry(g, num_occ,
                                               PmfProba(g.ri, num_occ))),
                                   !.rup_id = NextRupId(g),
                                   !.ri = @ + 1],
                  rng |-> s2.rng]
            ELSE RunToYield([g |-> [g1 EXCEPT !.ri = @ + 1], rng |-> s2.rng])

\* next(generator)
Resume(m) ==
    IF m.g.pc = "created"
    THEN RunToYield([g |-> [m.g EXCEPT !.pc = "running",
                                       !.rup_id = serial[m.g.src]],
                     rng |-> StartRng(m.g.src, m.rng)])
    ELSE RunToYield(m)

\* a generator consumed to its end with nothing else running
RECURSIVE RunToEnd(_)
RunToEnd(m) == IF m.g.pc = "done" THEN m ELSE RunToEnd(Resume(m))

\* the sequence a source yields when it is sampled alone
Alone(id, n) == RunToEnd([g |-> NewGen(id, n), rng |-> 0]).g.out

(***************************************************************************)
(* SpecSample: generators of several sources consumed in one process       *)
(***************************************************************************)
NoOne ==
    [src |-> "none", rupture_mutex |-> FALSE, err |-> "none", idx |-> -1,
     calls |-> 0]

\* the serials: the class default everywhere, or the default for the
\* Poissonian sources and an assigned one for the time-dependent ones
SerialChoices ==
    {[id \in SourceIds |-> DefaultSerial],
     [id \in SourceIds |-> IF Source(id).tom THEN DefaultSerial
                           ELSE AssignedSerial]}

SampleInit ==
    /\ serial \in SerialChoices
    /\ rng \in {0, RngMod - 1}
    /\ gens = [k \in Slots |-> NoGen]
    /\ one = NoOne
    /\ mA = << >> /\ mB = << >> /\ mC = << >> /\ mOut = NoOut /\ mpc = "off"
    /\ cfg = << >> /\ sp = << >>
    /\ pc = "off" /\ heap = << >> /\ tasks = << >> /\ acc = << >>
    /\ folded = << >>
    /\ src_filter = 0
    /\ AuxOff

\* the generators another use of numpy.random cuts into
Disturb(gs, k) ==
    [j \in Slots |-> IF j # k /\ gs[j].pc = "running"
                     THEN [gs[j] EXCEPT !.disturbed = TRUE] ELSE gs[j]]

\* gen = src.sample_ruptures(eff_num_ses): the generator object is made,
\* its body has not started
SampleRuptures(k, id, n) ==
    /\ gens[k].pc = "none"
    /\ gens' = [gens EXCEPT ![k] = NewGen(id, n)]
    /\ UNCHANGED <<serial, rng, one>>
    /\ UNCHANGED <<mergeVars, calcVars, auxVars>>

\* next(gen): the body runs to its next yield or to its end
NextEntry(k) ==
    /\ gens[k].pc \in {"created", "running"}
    /\ LET m == Resume([g |-> gens[k], rng |-> rng])
       IN  /\ gens' = Disturb([gens EXCEPT ![k] = m.g], k)
           /\ rng' = m.rng
    /\ UNCHANGED <<serial, one>>
    /\ UNCHANGED <<mergeVars, calcVars, auxVars>>

\* mutant: the generator is reseeded before the assertion is evaluated
GetOneRuptureSeedFirst(id, rupture_mutex) ==
    /\ Source(id).tom
    /\ one.calls < MaxOneCalls
    /\ \E r \in (IF Source(id).seed = << >> THEN RngStates
                  ELSE {Seed(Source(id).seed[1])}) :
          IF rupture_mutex
          THEN /\ rng' = r
               /\ one' = [src |-> id, rupture_mutex |-> TRUE,
                          err |-> "AssertionError", idx |-> -1,
                          calls |-> one.calls + 1]
               /\ gens' = Disturb(gens, 0)
          ELSE LET u == Advance(r)
                   num_ruptures == Len(Candidates(Source(id)))
               IN  /\ rng' = u
                   /\ one' = [src |-> id, rupture_mutex |-> FALSE,
                              err |-> "none",
                              idx |-> (u * num_ruptures) \div RngMod,
                              calls |-> one.calls + 1]
                   /\ gens' = Disturb(gens, 0)
    /\ UNCHANGED serial
    /\ UNCHANGED <<mergeVars, calcVars, auxVars>>

\* ParametricSeismicSource.get_one_rupture(rupture_mutex): the assertion
\* of line 377 comes first; numpy.random.seed(self.seed) with seed None
\* takes any state
GetOneRupture(id, rupture_mutex) ==
    /\ Source(id).tom
    /\ one.calls < MaxOneCalls
    /\ IF rupture_mutex
       THEN /\ one' = [src |-> id, rupture_mutex |-> TRUE,
                       err |-> "AssertionError", idx |-> -1,
                       calls |-> one.calls + 1]
            /\ UNCHANGED <<rng, gens>>
       ELSE \E r \in (IF Source(id).seed = << >> THEN RngStates
                      ELSE {Seed(Source(id).seed[1])}) :
              LET u == Advance(r)
                  num_ruptures == Len(Candidates(Source(id)))
              IN  /\ rng' = u
                  /\ one' = [src |-> id, rupture_mutex |-> FALSE,
                             err |-> "none",
                             idx |-> (u * num_ruptures) \div RngMod,
                             calls |-> one.calls + 1]
                  /\ gens' = Disturb(gens, 0)
    /\ UNCHANGED serial
    /\ UNCHANGED <<mergeVars, calcVars, auxVars>>

SampleNext ==
    \/ \E k \in Slots, id \in SourceIds, n \in 1..MaxSes :
          SampleRuptures(k, id, n)
    \/ \E k \in Slots : NextEntry(k)
    \/ \E id \in SourceIds, b \in BOOLEAN : GetOneRupture(id, b)

SpecSample == SampleInit /\ [][SampleNext]_vars

(***************************************************************************)
(* C7: given a fixed serial and a fixed eff_num_ses, two independent runs  *)
(* of sample_ruptures over the same source, each consumed to the end,      *)
(* yield identical sequences of (rupture id, group id, occurrence count,   *)
(* point probability).  Independent: no other use of numpy.random fell     *)
(* between the first and the last step of the run.                         *)
(***************************************************************************)
Independent(g) == g.pc = "done" /\ ~g.disturbed

C7_Reproducible ==
    \A j, k \in Slots :
        (/\ Independent(gens[j]) /\ Independent(gens[k])
         /\ gens[j].src = gens[k].src /\ gens[j].n = gens[k].n)
        => gens[j].out = gens[k].out

\* two independent runs over the same source are complete, each yielded
\* at least two entries, and numpy.random was used in between
C7_Witness ==
    /\ Independent(gens[1]) /\ Independent(gens[2])
    /\ gens[1].src = gens[2].src /\ gens[1].n = gens[2].n
    /\ Len(gens[1].out) >= 2
    /\ one.err = "none" /\ one.src # "none"

(***************************************************************************)
(* C8: reproducibility under interleaving: when the sample_ruptures        *)
(* sequences of two sources are consumed interleaved in one process, or a  *)
(* get_one_rupture call falls between two steps of a sequence, each        *)
(* source yields the sequence it yields when sampled alone.                *)
(***************************************************************************)
C8_InterleavedAsAlone ==
    \A k \in Slots :
        gens[k].pc = "done" => gens[k].out = Alone(gens[k].src, gens[k].n)

(***************************************************************************)
(* C9: the k-th entry yielded by sample_ruptures (counting from 0 across   *)
(* all group ids of the source) has rup_id = serial + k, so the entries of *)
(* one run carry pairwise different rup_ids; entries of two sources are    *)
(* different whenever the lower serial plus the number of entries that     *)
(* source yielded does not exceed the other serial.                        *)
(***************************************************************************)
C9_RupIdSerialPlusOffset ==
    /\ \A k \in Slots : \A i \in 1..Len(gens[k].out) :
          gens[k].out[i].rup_id = serial[gens[k].src] + (i - 1)
    /\ \A k \in Slots : \A i, j \in 1..Len(gens[k].out) :
          i # j => gens[k].out[i].rup_id # gens[k].out[j].rup_id
    /\ \A j, k \in Slots :
          (/\ gens[j].pc # "none" /\ gens[k].pc # "none"
           /\ gens[j].src # gens[k].src
           /\ serial[gens[j].src] + Len(gens[j].out) <= serial[gens[k].src])
          => \A a \in 1..Len(gens[j].out), b \in 1..Len(gens[k].out) :
                gens[j].out[a].rup_id # gens[k].out[b].rup_id

\* a source in two groups has yielded entries for both of them, and a
\* second source with a serial far enough has yielded as well
C9_Witness ==
    \E j, k \in Slots :
        /\ gens[j].pc = "done" /\ Len(gens[j].out) >= 3
        /\ gens[j].out[1].grp_id # gens[j].out[Len(gens[j].out)].grp_id
        /\ gens[k].pc = "done" /\ gens[k].src # gens[j].src
        /\ Len(gens[k].out) >= 1
        /\ serial[gens[j].src] + Len(gens[j].out) <= serial[gens[k].src]

\* C9 as stated: no two entries yielded, from the same source or from
\* different sources, carry the same rup_id
C9_GloballyUnique ==
    \A j, k \in Slots :
        (gens[j].pc # "none" /\ gens[k].pc # "none"
            /\ (j = k \/ gens[j].src # gens[k].src))
        => \A a \in 1..Len(gens[j].out), b \in 1..Len(gens[k].out) :
              (j # k \/ a # b) => gens[j].out[a].rup_id # gens[k].out[b].rup_id

(***************************************************************************)
(* C10: in both regimes and for each group id of the source, the sampler   *)
(* yields exactly one entry for every candidate rupture whose drawn count  *)
(* is greater than 0 and none for a candidate whose count is 0; the        *)
(* sequence is finite and every yielded count is a positive integer.       *)
(***************************************************************************)
PositiveDraw(d) == d[3] > 0

\* the (group, candidate, count) of the entries yielded
Yielded(g) ==
    [i \in 1..Len(g.out) |->
        <<g.out[i].grp_id, g.out[i].rup, g.out[i].num_occ>>]

\* the (group id, candidate, count) of every draw made
Draws(g) ==
    [i \in 1..Len(g.drawn) |->
        <<grp_ids(Source(g.src))[g.drawn[i][1]], g.drawn[i][2], g.drawn[i][3]>>]

C10_OneEntryPerOccurring ==
    \A k \in Slots :
        LET g == gens[k] IN
        /\ \A i \in 1..Len(g.out) : g.out[i].num_occ \in Nat \ {0}
        /\ g.pc = "done" =>
              /\ Yielded(g) = SelectSeq(Draws(g), PositiveDraw)
              /\ Len(g.drawn) = Len(grp_ids(Source(g.src)))
                                  * Len(Candidates(Source(g.src)))

\* a Poissonian and a time-dependent source have both been consumed to
\* the end, each with a candidate that occurred and one that did not
C10_Witness ==
    \E j, k \in Slots :
        /\ gens[j].pc = "done" /\ Source(gens[j].src).tom
        /\ gens[k].pc = "done" /\ ~Source(gens[k].src).tom
        /\ \A g \in {gens[j], gens[k]} :
              /\ \E i \in 1..Len(g.drawn) : g.drawn[i][3] = 0
              /\ \E i \in 1..Len(g.drawn) : g.drawn[i][3] > 0
              /\ Len(g.out) >= 1

\* the entries a generator yielded for candidate ri in its gi-th group
YieldedFor(g, gi, ri) ==
    {k \in DOMAIN g.out :
        /\ g.out[k].rup = ri
        /\ g.out[k].grp_id = grp_ids(Source(g.src))[gi]}

(***************************************************************************)
(* C11: in the non-parametric regime with mutex weight w < 1, for each     *)
(* repeat the rupture's sampled occurrence is zeroed exactly where that    *)
(* repeat's uniform draw is not below w (draw >= w) and is left unchanged  *)
(* elsewhere; a rupture left with no occurrence is not yielded, whatever   *)
(* its base occurrence distribution.  With w >= 1 no thinning is applied   *)
(* and no uniform value is drawn.                                          *)
(***************************************************************************)
C11_MutexThinning ==
    \A k \in Slots : \A j \in DOMAIN gens[k].thin :
        LET g == gens[k]
            t == g.thin[j]
            w == Source(g.src).mutex_weight
        IN  /\ Len(t.occ) = g.n /\ Len(t.base) = g.n
            /\ w < RngMod =>
                  /\ Len(t.aux) = g.n
                  /\ \A i \in 1..g.n :
                        t.occ[i] = IF t.aux[i] >= w THEN 0 ELSE t.base[i]
            /\ w >= RngMod => t.aux = << >> /\ t.occ = t.base
            /\ SumSeq(t.occ) = 0 => YieldedFor(g, t.gi, t.ri) = {}

\* a rupture with a base occurrence in every repeat was thinned to nothing
\* and not yielded, and another kept an occurrence where the draw was
\* below the weight
C11_Witness ==
    /\ \E k \in Slots : \E j \in DOMAIN gens[k].thin :
          LET t == gens[k].thin[j]
          IN  /\ Source(gens[k].src).mutex_weight < RngMod
              /\ \A i \in 1..Len(t.base) : t.base[i] > 0
              /\ SumSeq(t.occ) = 0
              /\ YieldedFor(gens[k], t.gi, t.ri) = {}
    /\ \E k \in Slots : \E j \in DOMAIN gens[k].thin :
          LET t == gens[k].thin[j]
          IN  /\ Source(gens[k].src).mutex_weight < RngMod
              /\ \E i \in 1..Len(t.base) : t.occ[i] > 0

\* the statement with "exceeds": zeroed exactly where the draw is above w,
\* so that a draw equal to w would leave the occurrence
C11_ZeroedWhereDrawExceeds ==
    \A k \in Slots : \A j \in DOMAIN gens[k].thin :
        LET g == gens[k]
            t == g.thin[j]
            w == Source(g.src).mutex_weight
        IN  w < RngMod =>
               \A i \in 1..g.n :
                  t.occ[i] = IF t.aux[i] > w THEN 0 ELSE t.base[i]

(***************************************************************************)
(* C13: get_one_rupture(rupture_mutex=True) on a parametric source always  *)
(* fails with an AssertionError, and fails before the random generator is  *)
(* reseeded or any rupture is generated (numpy.random and the running      *)
(* generators are left as they were, no rupture index is picked);          *)
(* get_one_rupture(rupture_mutex=False) on the same source does not fail   *)
(* and picks one of the source's ruptures.                                 *)
(***************************************************************************)
C13_MutexAssertedFirst ==
    [][one' # one =>
         /\ Source(one'.src).tom
         /\ one'.rupture_mutex =>
               /\ one'.err = "AssertionError"
               /\ one'.idx = -1
               /\ rng' = rng
               /\ gens' = gens
         /\ ~one'.rupture_mutex =>
               /\ one'.err = "none"
               /\ one'.idx \in 0..(Len(Candidates(Source(one'.src))) - 1)]_vars

\* the call failed on the assertion while a sampling generator was running
\* on a generator state other than the source's seed
C13_Witness ==
    /\ one.rupture_mutex /\ one.err = "AssertionError"
    /\ Source(one.src).seed # << >>
    /\ rng # Seed(Source(one.src).seed[1])
    /\ \E k \in Slots : gens[k].pc = "running" /\ ~gens[k].disturbed

(***************************************************************************)
(* C16: in the Poissonian regime, for every candidate rupture with rate    *)
(* lambda, time span T and repeats N, the point probability reported with  *)
(* a realized count k is exp(k*ln(lambda*T*N) - lambda*T*N - lnGamma(k+1)) *)
(* evaluated at that candidate's own mean lambda*T*N and at the count k    *)
(* drawn for that candidate, in the fault-like and in the multi-geometry   *)
(* branch.  The expression is kept as the pair (mean, count) it is a       *)
(* function of.                                                            *)
(***************************************************************************)
C16_PoissonPointProbability ==
    \A s \in Slots : \A j \in DOMAIN gens[s].out :
        LET g == gens[s]
            src == Source(g.src)
            e == g.out[j]
        IN  src.tom =>
               /\ e.proba_occ =
                     <<"poisson",
                       Candidates(src)[e.rup].rate * src.time_span * g.n,
                       e.num_occ>>
               /\ \E d \in DOMAIN g.drawn :
                     /\ g.drawn[d][2] = e.rup
                     /\ grp_ids(src)[g.drawn[d][1]] = e.grp_id
                     /\ g.drawn[d][3] = e.num_occ

\* a fault source and an area source have both yielded, one of them a
\* rupture that occurred more than once, with more than one repeat
C16_Witness ==
    \E s1, s2 \in Slots :
        /\ Source(gens[s1].src).kind = "fault"
        /\ Source(gens[s2].src).kind = "multi"
        /\ gens[s1].out # << >> /\ gens[s2].out # << >>
        /\ gens[s1].n > 1 \/ gens[s2].n > 1
        /\ \E j \in DOMAIN gens[s1].out : gens[s1].out[j].num_occ > 1

(***************************************************************************)
(* The UCERF classical tasks (ucerf_classical.py)                          *)
(***************************************************************************)
\* number of ruptures of a UCERF source: its rupture indices are 1..NumRup
NumRup == 2
\* number of background point sources of a UCERF source
NumBg == 2
\* largest integration distance of the source filter
MaxDist == 2

RupIdx == 1..NumRup
BgIds == 1..NumBg

\* Ruptures, sites and background sources lie on a line: rupture r at r,
\* site s at NumRup + s, and a background source b one unit off site b
Distance(r, s) == NumRup + s - r
BgDistance(b, s) == (IF b >= s THEN b - s ELSE s - b) + 1

\* the probabilities of exceedance the ground motion models give for
\* rupture r (of background source b) at site s, per (level, gsim)
RupPoe(r, s) ==
    [x \in Cells |-> PoeVals[((r + s + x[1] + x[2]) % Len(PoeVals)) + 1]]
BgPoe(b, s) ==
    [x \in Cells |-> PoeVals[((2 * b + s + x[1]) % Len(PoeVals)) + 1]]

\* ucerf_source.filter_sites_by_distance_from_rupture_set: the rupture
\* indices within max_dist of a site, and the sites within max_dist of one
\* of the ruptures
filter_sites_by_distance_from_rupture_set(rupset_idx, sitecol, max_dist) ==
    [idx   |-> {r \in rupset_idx :
                  \E s \in sitecol : Distance(r, s) <= max_dist},
     sites |-> {s \in sitecol :
                  \E r \in rupset_idx : Distance(r, s) <= max_dist}]

\* the probability of no exceedance at site s of the ruptures r.. of
\* rupset_idx that the context maker keeps (within max_dist of s)
RECURSIVE Pne(_, _, _, _)
Pne(r, rupset_idx, s, max_dist) ==
    IF r > NumRup THEN [x \in Cells |-> <<1, 1>>]
    ELSE LET rest == Pne(r + 1, rupset_idx, s, max_dist)
         IN  IF r \in rupset_idx /\ Distance(r, s) <= max_dist
             THEN [x \in Cells |-> PMul(PCompl(RupPoe(r, s)[x]), rest[x])]
             ELSE rest

\* poe_map(ucerf_source, s_sites, ...): one curve per site of s_sites, the
\* complement of the product of the ruptures' no-exceedance probabilities
poe_map(rupset_idx, s_sites, max_dist) ==
    [s \in s_sites |->
        [x \in Cells |-> PCompl(Pne(1, rupset_idx, s, max_dist)[x])]]

\* AccumDict.__iadd__ on dictionaries of counts
AddCounts(a, b) ==
    [k \in (DOMAIN a) \cup (DOMAIN b) |->
        (IF k \in DOMAIN a THEN a[k] ELSE 0)
        + (IF k \in DOMAIN b THEN b[k] ELSE 0)]

\* the background sources with a site within reach
\* (get_background_sids, get_background_sources)
BackgroundSources(sitecol, max_dist) ==
    {b \in BgIds : \E s \in sitecol : BgDistance(b, s) <= max_dist}

\* pmap_from_grp(sources, src_filter, ...): the merge of the sources'
\* poe_maps; grp_id is that of the first source, eff_ruptures counts the
\* ruptures computed (one per background source)
RECURSIVE BgPne(_, _, _, _)
BgPne(b, sources, s, max_dist) ==
    IF b > NumBg THEN [x \in Cells |-> <<1, 1>>]
    ELSE LET rest == BgPne(b + 1, sources, s, max_dist)
         IN  IF b \in sources /\ BgDistance(b, s) <= max_dist
             THEN [x \in Cells |-> PMul(PCompl(BgPoe(b, s)[x]), rest[x])]
             ELSE rest

pmap_from_grp(sources, sitecol, max_dist, grp_id) ==
    [curves |->
        [s \in {s \in sitecol :
                  \E b \in sources : BgDistance(b, s) <= max_dist} |->
            [x \in Cells |-> PCompl(BgPne(1, sources, s, max_dist)[x])]],
     grp_id |-> grp_id,
     eff_ruptures |-> (grp_id :> Cardinality(sources))]

\* a UcerfSource object: the fields the tasks read and write
UcerfSource(src_group_id) ==
    [src_group_id |-> src_group_id, nsites |-> 0, src_filter |-> FALSE,
     rupset_idx |-> {}, num_ruptures |-> 0]

NoPmap == [curves |-> ProbabilityMap, grp_id |-> -1, eff_ruptures |-> << >>]

\* a task as submitted: kind is "rupset" (ucerf_classical_hazard_by_
\* rupture_set), "branch" (ucerf_classical_hazard_by_branch) or "bg"
\* (pmap_from_grp); obj is the source object the task works on
NewTask(kind, obj, rupset_idx, sources) ==
    [kind |-> kind, obj |-> obj, rupset_idx |-> rupset_idx,
     sources |-> sources, pc |-> "start", fidx |-> {}, s_sites |-> {},
     pm |-> NoPmap, cmaker |-> FALSE, npoe |-> 0]

\* where a task goes on after its rupture-set part
AfterRuptureSet(t) == IF t.kind = "branch" THEN "background" ELSE "finished"

\* mutant: no fast path, the task goes on with an empty site collection
FilterSitesNoFastPath(t, o, c) ==
    LET f == filter_sites_by_distance_from_rupture_set(
                 t.rupset_idx, c.sitecol, c.max_dist)
    IN  [t |-> [t EXCEPT !.fidx = f.idx, !.s_sites = f.sites,
                         !.pc = "set_idx"],
         o |-> o]

\* ucerf_classical_hazard_by_rupture_set, lines 121-127 and 133-137: the
\* distance filter, and the empty map when no site is left
FilterSites(t, o, c) ==
    LET f == filter_sites_by_distance_from_rupture_set(
                 t.rupset_idx, c.sitecol, c.max_dist)
    IN  IF f.sites # {}
        THEN [t |-> [t EXCEPT !.fidx = f.idx, !.s_sites = f.sites,
                              !.pc = "set_idx"],
              o |-> o]
        ELSE [t |-> [t EXCEPT !.fidx = f.idx, !.s_sites = f.sites,
                              !.pm = [curves |-> ProbabilityMap,
                                      grp_id |-> o.src_group_id,
                                      eff_ruptures |-> (o.src_group_id :> 0)],
                              !.pc = AfterRuptureSet(t)],
              o |-> o]

\* mutant: line 92 does not narrow the source to the chunk, every rupture
\* of the source is computed
SetRupsetIdxWhole(t, o) ==
    [t |-> [t EXCEPT !.pc = "set_num", !.cmaker = TRUE,
                     !.pm = [NoPmap EXCEPT !.grp_id = o.src_group_id]],
     o |-> [o EXCEPT !.src_filter = TRUE, !.rupset_idx = RupIdx]]

\* lines 128-129 and 88-92: src_filter is attached to the source, the
\* ContextMaker and the fresh map are made, ucerf_source.rupset_idx is set
SetRupsetIdx(t, o) ==
    [t |-> [t EXCEPT !.pc = "set_num", !.cmaker = TRUE,
                     !.pm = [NoPmap EXCEPT !.grp_id = o.src_group_id]],
     o |-> [o EXCEPT !.src_filter = TRUE, !.rupset_idx = t.fidx]]

\* line 93: ucerf_source.num_ruptures = len(rupset_idx)
SetNumRuptures(t, o) ==
    [t |-> [t EXCEPT !.pc = "eff"],
     o |-> [o EXCEPT !.num_ruptures = Cardinality(t.fidx)]]

\* mutant: the count is that of the chunk as given, before the filter
SetEffRupturesUnfiltered(t, o) ==
    [t |-> [t EXCEPT !.pc = "poe",
                     !.pm.eff_ruptures =
                         (t.pm.grp_id :> Cardinality(t.rupset_idx))],
     o |-> o]

\* line 94: pmap.eff_ruptures = {pmap.grp_id: ucerf_source.num_ruptures}
SetEffRuptures(t, o) ==
    [t |-> [t EXCEPT !.pc = "poe",
                     !.pm.eff_ruptures = (t.pm.grp_id :> o.num_ruptures)],
     o |-> o]

\* lines 97-102: poe_map iterates the ruptures of ucerf_source.rupset_idx
\* over the task's sites, and its map is merged into the fresh one
PoeMapAndMerge(t, o, c) ==
    [t |-> [t EXCEPT !.pc = AfterRuptureSet(t), !.npoe = @ + 1,
                     !.pm.curves = HazardCurvesPmap(
                          poe_map(o.rupset_idx, t.s_sites, c.max_dist))],
     o |-> o]

\* ucerf_classical_hazard_by_branch, lines 163-175: the background sources
\* of the branch are computed with pmap_from_grp and merged into pm
BranchBackground(t, o, c) ==
    LET bckgnd_sources == BackgroundSources(c.sitecol, c.max_dist)
        pmap == pmap_from_grp(bckgnd_sources, c.sitecol, c.max_dist,
                              o.src_group_id)
    IN  IF bckgnd_sources # {}
        THEN [t |-> [t EXCEPT !.pc = "finished",
                        !.pm.curves = PmapOr(@, pmap.curves),
                        !.pm.eff_ruptures = AddCounts(@, pmap.eff_ruptures)],
              o |-> o]
        ELSE [t |-> [t EXCEPT !.pc = "finished"], o |-> o]

\* a pmap_from_grp task of the single-branch path: the sources keep the
\* src_group_id they were made with
BackgroundTask(t, o, c) ==
    [t |-> [t EXCEPT !.pc = "finished",
                     !.pm = pmap_from_grp(t.sources, c.sitecol, c.max_dist, 0)],
     o |-> o]

\* one step of a task, on the source object o it works on
Step(t, o, c) ==
    CASE t.kind = "bg"        -> BackgroundTask(t, o, c)
      [] t.pc = "start"       -> FilterSites(t, o, c)
      [] t.pc = "set_idx"     -> SetRupsetIdx(t, o)
      [] t.pc = "set_num"     -> SetNumRuptures(t, o)
      [] t.pc = "eff"         -> SetEffRuptures(t, o)
      [] t.pc = "poe"         -> PoeMapAndMerge(t, o, c)
      [] OTHER                -> BranchBackground(t, o, c)

\* a task run from where it stands to its end, nothing else running
RECURSIVE RunTask(_, _, _)
RunTask(t, o, c) ==
    IF t.pc = "finished" THEN [t |-> t, o |-> o]
    ELSE LET n == Step(t, o, c) IN RunTask(n.t, n.o, c)

\* ucerf_classical_hazard_by_rupture_set(rupset_idx, ucerf_source, ...)
\* called on the source object o
ucerf_classical_hazard_by_rupture_set(rupset_idx, o, c) ==
    RunTask(NewTask("rupset", 0, rupset_idx, {}), o, c)

(***************************************************************************)
(* SpecSplit: the rupture-set task on two disjoint chunks and on the whole *)
(***************************************************************************)
SplitInit ==
    /\ cfg \in [max_dist : 0..MaxDist, sitecol : SUBSET Sites]
    /\ \E c1 \in SUBSET RupIdx :
          sp = [c1 |-> c1, c2 |-> RupIdx \ c1, o |-> UcerfSource(0),
                r1 |-> NoPmap, r2 |-> NoPmap, rw |-> NoPmap, ran |-> {}]
    /\ mA = << >> /\ mB = << >> /\ mC = << >> /\ mOut = NoOut /\ mpc = "off"
    /\ serial = << >> /\ rng = 0 /\ gens = << >> /\ one = << >>
    /\ pc = "off" /\ heap = << >> /\ tasks = << >> /\ acc = << >>
    /\ folded = << >>
    /\ src_filter = 0
    /\ AuxOff

\* the task is called on the first chunk
RunChunk1 ==
    /\ "c1" \notin sp.ran
    /\ LET r == ucerf_classical_hazard_by_rupture_set(sp.c1, sp.o, cfg)
       IN  sp' = [sp EXCEPT !.r1 = r.t.pm, !.o = r.o, !.ran = @ \cup {"c1"}]
    /\ UNCHANGED <<cfg, execVars, mergeVars, sampleVars, auxVars>>

\* the task is called on the second chunk
RunChunk2 ==
    /\ "c2" \notin sp.ran
    /\ LET r == ucerf_classical_hazard_by_rupture_set(sp.c2, sp.o, cfg)
       IN  sp' = [sp EXCEPT !.r2 = r.t.pm, !.o = r.o, !.ran = @ \cup {"c2"}]
    /\ UNCHANGED <<cfg, execVars, mergeVars, sampleVars, auxVars>>

\* the task is called on the whole rupture-index set
RunWhole ==
    /\ "w" \notin sp.ran
    /\ LET r == ucerf_classical_hazard_by_rupture_set(RupIdx, sp.o, cfg)
       IN  sp' = [sp EXCEPT !.rw = r.t.pm, !.o = r.o, !.ran = @ \cup {"w"}]
    /\ UNCHANGED <<cfg, execVars, mergeVars, sampleVars, auxVars>>

SplitNext == RunChunk1 \/ RunChunk2 \/ RunWhole

SpecSplit == SplitInit /\ [][SplitNext]_vars

(***************************************************************************)
(* C2: for any source, any site collection and any split of the source's   *)
(* rupture-index set into two disjoint chunks, running                     *)
(* ucerf_classical_hazard_by_rupture_set on each chunk and merging the two *)
(* ProbabilityMaps gives the same map as running it once on the whole set. *)
(***************************************************************************)
C2_PartitionInvariant ==
    sp.ran = {"c1", "c2", "w"} =>
        PmapOr(sp.r1.curves, sp.r2.curves) = sp.rw.curves

\* both chunks hold a rupture, both partial maps hold the same site, and
\* the merged probability there is strictly between 0 and 1
C2_Witness ==
    /\ sp.ran = {"c1", "c2", "w"}
    /\ sp.c1 # {} /\ sp.c2 # {}
    /\ \E s \in (DOMAIN sp.r1.curves) \cap (DOMAIN sp.r2.curves) :
          \E x \in Cells :
             /\ sp.r1.curves[s][x][1] \notin {0, sp.r1.curves[s][x][2]}
             /\ sp.r2.curves[s][x][1] \notin {0, sp.r2.curves[s][x][2]}
             /\ sp.rw.curves[s][x] \notin {sp.r1.curves[s][x],
                                           sp.r2.curves[s][x]}

\* the ruptures of a chunk that enter the curve of one of the sites the
\* task computes, and the number of rupture indices the filter leaves
Contributed(rupset_idx) ==
    LET f == filter_sites_by_distance_from_rupture_set(
                 rupset_idx, cfg.sitecol, cfg.max_dist)
    IN  {r \in rupset_idx : \E s \in f.sites : Distance(r, s) <= cfg.max_dist}

FilteredCount(rupset_idx) ==
    Cardinality(filter_sites_by_distance_from_rupture_set(
                    rupset_idx, cfg.sitecol, cfg.max_dist).idx)

\* the count a returned map reports for the group of the source
Reported(pm) == pm.eff_ruptures[sp.o.src_group_id]

\* what is asked of the map returned for a chunk
CountedRight(pm, rupset_idx) ==
    /\ DOMAIN pm.eff_ruptures = {sp.o.src_group_id}
    /\ Reported(pm) = Cardinality(Contributed(rupset_idx))
    /\ DOMAIN pm.curves # {} => Reported(pm) = FilteredCount(rupset_idx)

MaxConcurrent == 2
\* largest number of logic tree branches (len(self.csm))
MaxBranches == 2

\* the elements of a set of integers in increasing order
RECURSIVE SortedSeq(_)
SortedSeq(S) ==
    IF S = {} THEN << >>
    ELSE LET m == CHOOSE x \in S : \A y \in S : x <= y
         IN  <<m>> \o SortedSeq(S \ {m})

\* Starmap.apply splits its first argument in at most `hint` blocks of
\* consecutive items of equal size, the last one possibly smaller
Blocks(S, hint) ==
    LET q == SortedSeq(S)
        n == Len(q)
        size == (n + hint - 1) \div hint
        nblocks == IF n = 0 THEN 0 ELSE (n + size - 1) \div size
    IN  [k \in 1..nblocks |->
            {q[i] : i \in ((k - 1) * size + 1)..
                          (IF k * size < n THEN k * size ELSE n)}]

\* lines 237-242: one empty ProbabilityMap per group id, no counts
AccInit(c) ==
    [curves |-> [g \in 0..(c.nbranches - 1) |-> ProbabilityMap],
     eff_ruptures |-> << >>]

\* ClassicalCalculator.agg_dicts(acc, pmap): the counts are added, the map
\* is merged into the accumulator of its group
agg_dicts(a, pmap) ==
    [curves |-> [a.curves EXCEPT ![pmap.grp_id] = PmapOr(@, pmap.curves)],
     eff_ruptures |-> AddCounts(a.eff_ruptures, pmap.eff_ruptures)]

\* mutant: the map of a background task replaces the accumulated one
ComposeBackgroundOverwrite(a, pmap) ==
    [a EXCEPT !.curves[0] = pmap.curves]

\* line 280: acc[0] |= pmap
ComposeBackground(a, pmap) ==
    [a EXCEPT !.curves[0] = PmapOr(@, pmap.curves)]

\* the result of task i folded into the accumulator, as execute does it
FoldOne(a, i) ==
    IF tasks[i].kind = "bg" THEN ComposeBackground(a, tasks[i].pm)
    ELSE agg_dicts(a, tasks[i].pm)

\* the results of the tasks of `order` folded one after the other
RECURSIVE FoldSeq(_, _)
FoldSeq(a, order) ==
    IF order = << >> THEN a
    ELSE FoldSeq(FoldOne(a, Head(order)), Tail(order))

\* the source object a new task works on, when the original is heap[orig]
\* and k tasks were submitted before it in the same call: the original in
\* a thread pool, a pickled copy of its own in a process pool
TaskObj(orig, k) ==
    IF cfg.distribute = "threadpool" THEN orig ELSE Len(heap) + k + 1

CopiesFor(orig, n) ==
    IF cfg.distribute = "threadpool" THEN << >>
    ELSE [k \in 1..n |-> heap[orig]]

CalcInit ==
    /\ cfg \in [nbranches : 1..MaxBranches,
                distribute : {"processpool", "threadpool"},
                max_dist : 0..MaxDist,
                concurrent_tasks : 1..MaxConcurrent,
                sitecol : {Sites}]
    /\ pc = "execute"
    /\ heap = [g \in 1..cfg.nbranches |-> UcerfSource(g - 1)]
    /\ tasks = << >>
    /\ acc = << >>
    /\ folded = << >>
    /\ src_filter = 0
    /\ AuxOff
    /\ sp = << >>
    /\ mA = << >> /\ mB = << >> /\ mC = << >> /\ mOut = NoOut /\ mpc = "off"
    /\ serial = << >> /\ rng = 0 /\ gens = << >> /\ one = << >>

\* lines 234-242: the source filter and the accumulator are made
Execute ==
    /\ pc = "execute"
    /\ src_filter' = src_filter + 1
    /\ acc' = AccInit(cfg)
    /\ pc' = IF cfg.nbranches > 1 THEN "branches" ELSE "single"
    /\ UNCHANGED <<cfg, sp, heap, tasks, folded, mergeVars, sampleVars, auxVars>>

\* lines 244-248 with gen_args (215-226): one task per branch; nsites is
\* set on each branch's source before it is handed over
SubmitBranches ==
    /\ pc = "branches"
    /\ LET withN == [g \in 1..cfg.nbranches |->
                        [heap[g] EXCEPT !.nsites = Cardinality(cfg.sitecol)]]
       IN  /\ heap' = withN \o (IF cfg.distribute = "threadpool" THEN << >>
                                ELSE withN)
           /\ tasks' = [g \in 1..cfg.nbranches |->
                          NewTask("branch",
                                  IF cfg.distribute = "threadpool" THEN g
                                  ELSE cfg.nbranches + g,
                                  RupIdx, {})]
    /\ pc' = "reduce"
    /\ UNCHANGED <<cfg, sp, src_filter, acc, folded, mergeVars, sampleVars, auxVars>>

\* lines 250-268: nsites is set, the background sources are looked up and
\* split over pmap_from_grp tasks
SubmitBackground ==
    /\ pc = "single"
    /\ heap' = [heap EXCEPT ![1].nsites = Cardinality(cfg.sitecol)]
    /\ LET blocks == Blocks(BackgroundSources(cfg.sitecol, cfg.max_dist),
                            cfg.concurrent_tasks)
       IN  tasks' = [k \in DOMAIN blocks |-> NewTask("bg", 1, {}, blocks[k])]
    /\ pc' = "rupture_sets"
    /\ UNCHANGED <<cfg, sp, src_filter, acc, folded, mergeVars, sampleVars, auxVars>>

\* mutant: the rupture indices are not split, every task gets them all
SubmitRuptureSetsUnsplit ==
    /\ pc = "rupture_sets"
    /\ LET blocks == Blocks(RupIdx, cfg.concurrent_tasks * 2)
       IN  /\ tasks' = tasks \o
                  [k \in DOMAIN blocks |->
                      NewTask("rupset", TaskObj(1, k - 1), RupIdx, {})]
           /\ heap' = heap \o CopiesFor(1, Len(blocks))
    /\ pc' = "compose"
    /\ UNCHANGED <<cfg, sp, src_filter, acc, folded, mergeVars, sampleVars, auxVars>>

\* lines 270-276: the rupture indices are split over
\* ucerf_classical_hazard_by_rupture_set tasks, all given ucerf_source
SubmitRuptureSets ==
    /\ pc = "rupture_sets"
    /\ LET blocks == Blocks(RupIdx, cfg.concurrent_tasks * 2)
       IN  /\ tasks' = tasks \o
                  [k \in DOMAIN blocks |->
                      NewTask("rupset", TaskObj(1, k - 1), blocks[k], {})]
           /\ heap' = heap \o CopiesFor(1, Len(blocks))
    /\ pc' = "compose"
    /\ UNCHANGED <<cfg, sp, src_filter, acc, folded, mergeVars, sampleVars, auxVars>>

\* a worker runs the next step of task i
TaskStep(i) ==
    /\ tasks[i].pc # "finished"
    /\ LET n == Step(tasks[i], heap[tasks[i].obj], cfg)
       IN  /\ tasks' = [tasks EXCEPT ![i] = n.t]
           /\ heap' = [heap EXCEPT ![tasks[i].obj] = n.o]
    /\ UNCHANGED <<cfg, sp, src_filter, pc, acc, folded, mergeVars, sampleVars, auxVars>>

InSeq(i, q) == \E k \in DOMAIN q : q[k] = i

\* lines 279-280: the next background result to arrive is merged
CollectBackground(i) ==
    /\ pc = "compose"
    /\ tasks[i].kind = "bg" /\ tasks[i].pc = "finished"
    /\ ~InSeq(i, folded)
    /\ acc' = FoldOne(acc, i)
    /\ folded' = Append(folded, i)
    /\ UNCHANGED <<cfg, sp, src_filter, pc, heap, tasks, mergeVars, sampleVars, auxVars>>

\* line 281: the loop over bg_res is over
BackgroundDone ==
    /\ pc = "compose"
    /\ \A i \in DOMAIN tasks : tasks[i].kind = "bg" => InSeq(i, folded)
    /\ pc' = "reduce"
    /\ UNCHANGED <<cfg, sp, src_filter, heap, tasks, acc, folded, mergeVars, sampleVars, auxVars>>

\* line 283: functools.reduce(self.agg_dicts, rup_res, acc) takes the next
\* result to arrive
Reduce(i) ==
    /\ pc = "reduce"
    /\ tasks[i].kind # "bg" /\ tasks[i].pc = "finished"
    /\ ~InSeq(i, folded)
    /\ acc' = FoldOne(acc, i)
    /\ folded' = Append(folded, i)
    /\ UNCHANGED <<cfg, sp, src_filter, pc, heap, tasks, mergeVars, sampleVars, auxVars>>

\* mutant: execute returns without waiting for every result
FinishEarly ==
    /\ pc = "reduce"
    /\ pc' = "done"
    /\ UNCHANGED <<cfg, sp, src_filter, heap, tasks, acc, folded, mergeVars,
                   sampleVars, auxVars>>

\* lines 284-290: every result is folded, the accumulator is returned
Finish ==
    /\ pc = "reduce"
    /\ \A i \in DOMAIN tasks : InSeq(i, folded)
    /\ pc' = "done"
    /\ UNCHANGED <<cfg, sp, src_filter, heap, tasks, acc, folded, mergeVars, sampleVars, auxVars>>

Next ==
    \/ Execute
    \/ SubmitBranches
    \/ SubmitBackground
    \/ SubmitRuptureSets
    \/ \E i \in DOMAIN tasks : TaskStep(i)
    \/ \E i \in DOMAIN tasks : CollectBackground(i)
    \/ BackgroundDone
    \/ \E i \in DOMAIN tasks : Reduce(i)
    \/ Finish

Spec == CalcInit /\ [][Next]_vars

(***************************************************************************)
(* C1: in UcerfPSHACalculator.execute, for a fixed set of dispatched       *)
(* tasks, the accumulator returned after folding all task results          *)
(* (probability values and effective-rupture counts per group id) is the   *)
(* same for every order in which the tasks complete and are collected:    *)
(* whatever the order of arrival, the accumulator is the fold, in dispatch *)
(* order, of the results folded so far, and of all of them when execute    *)
(* returns.                                                                *)
(***************************************************************************)
C1_FoldOrderIndependent ==
    pc \in {"compose", "reduce", "done"} =>
        /\ acc = FoldSeq(AccInit(cfg),
                         SortedSeq({folded[k] : k \in DOMAIN folded}))
        /\ pc = "done" => Len(folded) = Len(tasks)

\* fractional probability at some (level, gsim) of a curve
Fractional(curve) == \E x \in Cells : curve[x][1] \notin {0, curve[x][2]}

\* execute is over, two results were folded against their dispatch order,
\* and both hold a fractional curve for the same site of the same group
C1_Witness ==
    /\ pc = "done"
    /\ \E j, k \in DOMAIN folded :
          /\ j < k /\ folded[j] > folded[k]
          /\ tasks[folded[j]].kind = tasks[folded[k]].kind
          /\ tasks[folded[j]].pm.grp_id = tasks[folded[k]].pm.grp_id
          /\ \E s \in (DOMAIN tasks[folded[j]].pm.curves)
                       \cap (DOMAIN tasks[folded[k]].pm.curves) :
                /\ Fractional(tasks[folded[j]].pm.curves[s])
                /\ Fractional(tasks[folded[k]].pm.curves[s])

\* the call of ucerf_classical_hazard_by_rupture_set made by task i has
\* returned
RuptureSetReturned(i) ==
    \/ tasks[i].kind = "rupset" /\ tasks[i].pc = "finished"
    \/ tasks[i].kind = "branch" /\ tasks[i].pc = "background"

(***************************************************************************)
(* C5: when distance filtering in ucerf_classical_hazard_by_rupture_set    *)
(* leaves zero sites, the task returns the identity map (no exceedance     *)
(* probability above 0), an effective-rupture count of 0 for the source's  *)
(* group and the source's group id, whatever the source's rupture count,   *)
(* and builds no context maker and evaluates no ground motion.             *)
(***************************************************************************)
C5_ZeroSitesFastPath ==
    \A i \in DOMAIN tasks :
        (RuptureSetReturned(i) /\ tasks[i].s_sites = {}) =>
            /\ tasks[i].pm.curves = ProbabilityMap
            /\ tasks[i].pm.grp_id = heap[tasks[i].obj].src_group_id
            /\ tasks[i].pm.eff_ruptures =
                  (heap[tasks[i].obj].src_group_id :> 0)
            /\ ~tasks[i].cmaker
            /\ tasks[i].npoe = 0

\* a task given rupture indices has returned with no site left
C5_Witness ==
    \E i \in DOMAIN tasks :
        /\ RuptureSetReturned(i)
        /\ tasks[i].rupset_idx # {}
        /\ tasks[i].s_sites = {}

(***************************************************************************)
(* C6: no task mutates another task's inputs: when several rupture-subset  *)
(* tasks of the single-branch path run concurrently (as threads or         *)
(* processes) on the same ucerf_source, in every interleaving each task    *)
(* computes its map and its effective-rupture count over its own filtered  *)
(* rupture-index subset.                                                   *)
(***************************************************************************)
C6_TasksComputeOwnSubset ==
    \A i \in DOMAIN tasks :
        (/\ tasks[i].kind = "rupset"
         /\ tasks[i].pc = "finished"
         /\ tasks[i].s_sites # {}) =>
            /\ tasks[i].pm.curves =
                  poe_map(tasks[i].fidx, tasks[i].s_sites, cfg.max_dist)
            /\ tasks[i].pm.eff_ruptures =
                  (tasks[i].pm.grp_id :> Cardinality(tasks[i].fidx))

(***************************************************************************)
(* SpecPre: pre_execute with convert_UCERFSource, up to the dispatch       *)
(***************************************************************************)
\* the texts of the investigationTime attribute and the numbers float()
\* reads from them
InvTexts == {"1", "1.0", "2"}
float(text) == IF text = "2" THEN 2 ELSE 1
\* the configured investigation times (self.tom.time_span)
TimeSpans == {1, 2}

\* datetime.strptime(node["startDate"], "%d/%m/%Y") of the date given
StartDate == <<2014, 1, 1>>

\* the UCERF source nodes: a node may or may not carry the attributes
\* startDate and investigationTime
Nodes ==
    [attrib : SUBSET {"startDate", "investigationTime"},
     investigationTime : InvTexts]

NoControl == [made |-> FALSE, time_span |-> 0, start_date |-> << >>]

\* UCERFControl(source_file, node["id"], self.tom.time_span, start_date, ..)
UCERFControl(time_span, start_date) ==
    [made |-> TRUE, time_span |-> time_span, start_date |-> start_date]

\* convert_UCERFSource(self, node), lines 44-75
convert_UCERFSource(node, time_span) ==
    IF {"startDate", "investigationTime"} \subseteq node.attrib
    THEN IF float(node.investigationTime) # time_span
         THEN [err |-> "ValueError", control |-> NoControl]
         ELSE [err |-> "none", control |-> UCERFControl(time_span, StartDate)]
    ELSE [err |-> "none", control |-> UCERFControl(time_span, << >>)]

PreInit ==
    /\ cfg \in [nbranches : 1..MaxBranches,
                distribute : {"processpool", "threadpool"},
                max_dist : 0..MaxDist,
                concurrent_tasks : 1..MaxConcurrent,
                sitecol : {Sites}]
    /\ \E node \in Nodes, time_span \in TimeSpans :
          conv = [node |-> node, time_span |-> time_span,
                  err |-> "none", control |-> NoControl]
    /\ pc = "pre_execute"
    /\ heap = << >>
    /\ tasks = << >>
    /\ acc = << >>
    /\ folded = << >>
    /\ src_filter = 0
    /\ sp = << >>
    /\ AuxOffButConv
    /\ mA = << >> /\ mB = << >> /\ mC = << >> /\ mOut = NoOut /\ mpc = "off"
    /\ serial = << >> /\ rng = 0 /\ gens = << >> /\ one = << >>

\* pre_execute, lines 187-213: the source model is parsed, which converts
\* the UCERF source node; if that raises, pre_execute is left at once,
\* else one UcerfSource per branch is made
PreExecute ==
    /\ pc = "pre_execute"
    /\ LET c == convert_UCERFSource(conv.node, conv.time_span)
       IN  /\ conv' = [conv EXCEPT !.err = c.err, !.control = c.control]
           /\ IF c.err # "none"
              THEN pc' = "failed" /\ heap' = heap
              ELSE /\ pc' = "execute"
                   /\ heap' = [g \in 1..cfg.nbranches |-> UcerfSource(g - 1)]
    /\ UNCHANGED <<cfg, sp, src_filter, tasks, acc, folded, mergeVars, sampleVars,
                   auxButConv>>

PreNext ==
    \/ PreExecute
    \/ Execute
    \/ SubmitBranches
    \/ SubmitBackground
    \/ SubmitRuptureSets

SpecPre == PreInit /\ [][PreNext]_vars

\* the node declares an investigation time that is not the configured one
DeclaredMismatch ==
    /\ "investigationTime" \in conv.node.attrib
    /\ float(conv.node.investigationTime) # conv.time_span

(***************************************************************************)
(* C12: whenever a source's declared investigation time differs from the   *)
(* configured time span, the run fails with a ValueError during source     *)
(* conversion, before any task is dispatched and without constructing the  *)
(* source control object.                                                  *)
(***************************************************************************)
C12_MismatchIsFatal ==
    (pc # "pre_execute" /\ DeclaredMismatch) =>
        /\ pc = "failed"
        /\ conv.err = "ValueError"
        /\ ~conv.control.made
        /\ tasks = << >>

(***************************************************************************)
(* SpecSource: a parametric source is constructed, then modified           *)
(***************************************************************************)
\* largest rupture mesh spacing and aspect ratio tried
MaxSpacing == 2
\* number of modify calls in a run of the model
MaxModify == 2
\* largest value a parameter dictionary carries
MaxDipStep == 2

\* the values a caller passes for a float parameter: None, a number, nan
None == [kind |-> "None", v |-> 0]
NaN == [kind |-> "nan", v |-> 0]
Num(v) == [kind |-> "num", v |-> v]
FloatArgs == {None, NaN} \cup {Num(v) : v \in (-1)..MaxSpacing}

\* mutant: zero is accepted
GreaterThanZeroOrZero(x) == x.kind = "num" /\ x.v >= 0

\* x > 0 on a float: False for nan
GreaterThanZero(x) == x.kind = "num" /\ x.v > 0

\* the source class of the model: the modifications it declares and the
\* modify_* methods it has (modify_set_geometry is not declared)
MODIFICATIONS == {"set_dip", "adjust_dip"}
Methods == {"modify_set_dip", "modify_adjust_dip", "modify_set_geometry"}
ModificationNames == {"set_dip", "adjust_dip", "set_geometry", "set_slip"}
ParameterDicts ==
    {[name |-> n, value |-> v] : n \in {"dip", "increment"},
                                 v \in 1..MaxDipStep}

\* the keyword each method takes
Keyword(meth) == IF meth = "modify_set_dip" THEN "dip" ELSE "increment"

NoSource ==
    [made |-> FALSE, err |-> "none",
     rupture_mesh_spacing |-> None, rupture_aspect_ratio |-> None,
     dip |-> 0, calls |-> << >>, nmodify |-> 0,
     last |-> [modification |-> "none", parameters |-> << >>]]

\* ParametricSeismicSource.__init__, lines 316-331
ParametricSeismicSource(rupture_mesh_spacing, rupture_aspect_ratio) ==
    IF rupture_mesh_spacing # None /\ ~GreaterThanZero(rupture_mesh_spacing)
    THEN [NoSource EXCEPT !.err = "ValueError"]
    ELSE IF rupture_aspect_ratio # None
            /\ ~GreaterThanZero(rupture_aspect_ratio)
    THEN [NoSource EXCEPT !.err = "ValueError"]
    ELSE [NoSource EXCEPT !.made = TRUE,
                          !.rupture_mesh_spacing = rupture_mesh_spacing,
                          !.rupture_aspect_ratio = rupture_aspect_ratio]

\* meth(**parameters): the call of a modify_* method; a keyword the method
\* does not take is a TypeError of the call, nothing is changed
Invoke(o, meth, parameters) ==
    LET called == [o EXCEPT !.calls = Append(@, [meth |-> meth,
                                                parameters |-> parameters])]
    IN  IF parameters.name # Keyword(meth)
        THEN [called EXCEPT !.err = "TypeError"]
        ELSE IF meth = "modify_set_dip"
        THEN [called EXCEPT !.dip = parameters.value]
        ELSE [called EXCEPT !.dip = @ + parameters.value]

\* mutant: the name is not looked up in MODIFICATIONS
modifyUnchecked(o, modification, parameters) ==
    LET meth == "modify_" \o modification
    IN  IF meth \notin Methods THEN [o EXCEPT !.err = "AttributeError"]
        ELSE Invoke(o, meth, parameters)

\* BaseSeismicSource.modify(modification, parameters), lines 259-279
modify(o, modification, parameters) ==
    IF modification \notin MODIFICATIONS
    THEN [o EXCEPT !.err = "ValueError"]
    ELSE LET meth == "modify_" \o modification
         IN  IF meth \notin Methods THEN [o EXCEPT !.err = "AttributeError"]
             ELSE Invoke(o, meth, parameters)

SourceInit ==
    /\ psrc = [src |-> NoSource,
               args |-> [rupture_mesh_spacing |-> None,
                         rupture_aspect_ratio |-> None],
               constructed |-> FALSE]
    /\ AuxOffButPsrc
    /\ cfg = << >> /\ sp = << >>
    /\ pc = "off" /\ heap = << >> /\ tasks = << >> /\ acc = << >>
    /\ folded = << >>
    /\ src_filter = 0
    /\ mA = << >> /\ mB = << >> /\ mC = << >> /\ mOut = NoOut /\ mpc = "off"
    /\ serial = << >> /\ rng = 0 /\ gens = << >> /\ one = << >>

\* a concrete parametric source is constructed
Construct(rupture_mesh_spacing, rupture_aspect_ratio) ==
    /\ ~psrc.constructed
    /\ psrc' = [src |-> ParametricSeismicSource(rupture_mesh_spacing,
                                                rupture_aspect_ratio),
                args |-> [rupture_mesh_spacing |-> rupture_mesh_spacing,
                          rupture_aspect_ratio |-> rupture_aspect_ratio],
                constructed |-> TRUE]
    /\ UNCHANGED <<auxButPsrc, mergeVars, sampleVars, calcVars>>

\* source.modify(modification, parameters) on a constructed source
Modify(modification, parameters) ==
    /\ psrc.constructed /\ psrc.src.made
    /\ psrc.src.nmodify < MaxModify
    /\ psrc' = [psrc EXCEPT !.src =
                  [modify([psrc.src EXCEPT !.err = "none"],
                          modification, parameters)
                   EXCEPT !.nmodify = @ + 1,
                          !.last = [modification |-> modification,
                                    parameters |-> parameters]]]
    /\ UNCHANGED <<auxButPsrc, mergeVars, sampleVars, calcVars>>

SourceNext ==
    \/ \E m, a \in FloatArgs : Construct(m, a)
    \/ \E n \in ModificationNames, p \in ParameterDicts : Modify(n, p)

SpecSource == SourceInit /\ [][SourceNext]_vars

(***************************************************************************)
(* C14: modify(modification, parameters) with a name that is not in the    *)
(* source's MODIFICATIONS raises ValueError without invoking any modify_*  *)
(* method, leaving the source unchanged; with a name in MODIFICATIONS it   *)
(* invokes exactly the method modify_<name>, once, with the given          *)
(* parameters.                                                             *)
(***************************************************************************)
C14_ModifyDispatch ==
    [][(psrc.constructed /\ psrc' # psrc) =>
         LET name == psrc'.src.last.modification
             before == psrc.src
             after == psrc'.src
         IN  IF name \notin MODIFICATIONS
             THEN /\ after.err = "ValueError"
                  /\ after.calls = before.calls
                  /\ after.dip = before.dip
                  /\ after.rupture_mesh_spacing = before.rupture_mesh_spacing
                  /\ after.rupture_aspect_ratio = before.rupture_aspect_ratio
             ELSE /\ after.err # "ValueError"
                  /\ after.calls =
                        Append(before.calls,
                               [meth |-> "modify_" \o name,
                                parameters |-> after.last.parameters])]_vars

\* a name for which a modify_* method exists but that is not declared was
\* refused after a declared modification had changed the source
C14_Witness ==
    /\ psrc.constructed /\ psrc.src.made
    /\ psrc.src.last.modification = "set_geometry"
    /\ psrc.src.err = "ValueError"
    /\ Len(psrc.src.calls) = 1
    /\ psrc.src.calls[1].meth = "modify_adjust_dip"
    /\ psrc.src.dip > 0

(***************************************************************************)
(* C15: every successfully constructed parametric source has a rupture     *)
(* mesh spacing that is None or strictly positive and a rupture aspect     *)
(* ratio that is None or strictly positive: construction with a non-None   *)
(* value that is not > 0 for either parameter raises ValueError and yields *)
(* no source.                                                              *)
(***************************************************************************)
C15_SpacingAndAspectPositive ==
    /\ (psrc.constructed /\ psrc.src.made) =>
          /\ \/ psrc.src.rupture_mesh_spacing = None
             \/ (/\ psrc.src.rupture_mesh_spacing.kind = "num"
                 /\ psrc.src.rupture_mesh_spacing.v > 0)
          /\ \/ psrc.src.rupture_aspect_ratio = None
             \/ (/\ psrc.src.rupture_aspect_ratio.kind = "num"
                 /\ psrc.src.rupture_aspect_ratio.v > 0)
          /\ psrc.src.rupture_mesh_spacing = psrc.args.rupture_mesh_spacing
          /\ psrc.src.rupture_aspect_ratio = psrc.args.rupture_aspect_ratio
    /\ (/\ psrc.constructed
        /\ \E x \in {psrc.args.rupture_mesh_spacing,
                     psrc.args.rupture_aspect_ratio} :
              x # None /\ ~(x.kind = "num" /\ x.v > 0)) =>
          ~psrc.src.made /\ psrc.src.err = "ValueError"

\* a construction with a good mesh spacing and a zero aspect ratio failed
C15_Witness ==
    /\ psrc.constructed
    /\ psrc.args.rupture_mesh_spacing = Num(1)
    /\ psrc.args.rupture_aspect_ratio = Num(0)
    /\ ~psrc.src.made /\ psrc.src.err = "ValueError"

(***************************************************************************)
(* SpecGmpe: MultiGMPE instances constructed one after the other           *)
(***************************************************************************)
\* number of MultiGMPE instances constructed in a run of the model
MaxInstances == 2
\* largest number of entries of a gsim_by_imt dictionary
MaxImts == 2

\* the attributes __init__ updates
Attributes ==
    {"DEFINED_FOR_INTENSITY_MEASURE_TYPES",
     "DEFINED_FOR_STANDARD_DEVIATION_TYPES",
     "REQUIRES_SITES_PARAMETERS",
     "REQUIRES_RUPTURE_PARAMETERS",
     "REQUIRES_DISTANCES"}

\* the class attributes as the class statement leaves them, lines 42-58
ClassDefaults ==
    [a \in Attributes |->
        CASE a = "DEFINED_FOR_STANDARD_DEVIATION_TYPES" -> {"TOTAL"}
          [] a = "REQUIRES_RUPTURE_PARAMETERS" -> {"mag"}
          [] OTHER -> {}]

\* the constituent ground motion models of the model
GsimNames == {"GsimA", "GsimB"}
Gsim(name) ==
    IF name = "GsimA"
    THEN [a \in Attributes |->
            CASE a = "DEFINED_FOR_INTENSITY_MEASURE_TYPES" -> {"PGA", "SA"}
              [] a = "DEFINED_FOR_STANDARD_DEVIATION_TYPES" -> {"TOTAL"}
              [] a = "REQUIRES_SITES_PARAMETERS" -> {"vs30"}
              [] a = "REQUIRES_RUPTURE_PARAMETERS" -> {"mag", "rake"}
              [] OTHER -> {"rjb"}]
    ELSE [a \in Attributes |->
            CASE a = "DEFINED_FOR_INTENSITY_MEASURE_TYPES" -> {"PGA", "PGV"}
              [] a = "DEFINED_FOR_STANDARD_DEVIATION_TYPES" ->
                    {"TOTAL", "INTER_EVENT"}
              [] a = "REQUIRES_SITES_PARAMETERS" -> {"vs30", "z1pt0"}
              [] a = "REQUIRES_RUPTURE_PARAMETERS" -> {"mag"}
              [] OTHER -> {"rrup"}]

\* the keys of gsim_by_imt and from_string(imt).__class__
ImtStrings == {"PGA", "PGV", "SA(0.1)"}
from_string(imt) == IF imt = "SA(0.1)" THEN "SA" ELSE imt

\* the dictionaries gsim_by_imt, as the sequence of their items
GsimByImt ==
    {d \in UNION {[1..n -> ImtStrings \X GsimNames] : n \in 1..MaxImts} :
        \A i, j \in DOMAIN d : i # j => d[i][1] # d[j][1]}

\* the loop of lines 65-78 from item i on: cls is the class attributes,
\* which self.<ATTRIBUTE>.update(...) changes in place
RECURSIVE InitLoop(_, _, _)
InitLoop(cls, gsim_by_imt, i) ==
    IF i > Len(gsim_by_imt) THEN [cls |-> cls, err |-> "none"]
    ELSE LET gsim == Gsim(gsim_by_imt[i][2])
             imt_class == from_string(gsim_by_imt[i][1])
         IN  IF imt_class \notin gsim["DEFINED_FOR_INTENSITY_MEASURE_TYPES"]
             THEN [cls |-> cls, err |-> "ValueError"]
             ELSE InitLoop([a \in Attributes |-> cls[a] \cup gsim[a]],
                           gsim_by_imt, i + 1)

GmpeInit ==
    /\ gm = [cls |-> ClassDefaults, instances |-> << >>]
    /\ AuxOffButGm
    /\ cfg = << >> /\ sp = << >>
    /\ pc = "off" /\ heap = << >> /\ tasks = << >> /\ acc = << >>
    /\ folded = << >>
    /\ src_filter = 0
    /\ mA = << >> /\ mB = << >> /\ mC = << >> /\ mOut = NoOut /\ mpc = "off"
    /\ serial = << >> /\ rng = 0 /\ gens = << >> /\ one = << >>

\* MultiGMPE(gsim_by_imt), lines 60-78: the instance gets gsim_by_imt and
\* no attribute of its own beside it
MultiGMPE(gsim_by_imt) ==
    /\ Len(gm.instances) < MaxInstances
    /\ LET r == InitLoop(gm.cls, gsim_by_imt, 1)
       IN  gm' = [cls |-> r.cls,
                  instances |-> Append(gm.instances,
                                       [gsim_by_imt |-> gsim_by_imt,
                                        err |-> r.err])]
    /\ UNCHANGED <<auxButGm, mergeVars, sampleVars, calcVars>>

GmpeNext == \E d \in GsimByImt : MultiGMPE(d)

SpecGmpe == GmpeInit /\ [][GmpeNext]_vars

\* self.<attribute> of an instance: the instance has no attribute of that
\* name, the lookup gives the class attribute
InstanceAttribute(i, a) == gm.cls[a]

\* the union over the instance's own constituent models, plus the defaults
OwnUnion(i, a) ==
    ClassDefaults[a] \cup
    UNION {Gsim(gm.instances[i].gsim_by_imt[k][2])[a] :
              k \in DOMAIN gm.instances[i].gsim_by_imt}

(***************************************************************************)
(* C17: constructing a MultiGMPE never mutates a shared default: after any *)
(* sequence of MultiGMPE constructions, each instance's supported          *)
(* intensity-measure types, standard-deviation types and required site,    *)
(* rupture and distance parameters equal the union over that instance's    *)
(* own constituent models (plus the declared defaults), and are unaffected *)
(* by the construction of any other instance.                              *)
(***************************************************************************)
C17_PerInstanceCapabilities ==
    /\ \A i \in DOMAIN gm.instances :
          gm.instances[i].err = "none" =>
             \A a \in Attributes : InstanceAttribute(i, a) = OwnUnion(i, a)
    /\ gm.cls = ClassDefaults

\* execute has dispatched its tasks
Dispatched == pc \in {"compose", "reduce", "done"}

\* the tasks of one kind
TasksOf(kind) == {i \in DOMAIN tasks : tasks[i].kind = kind}

(***************************************************************************)
(* C18: every unit of work is dispatched exactly once: with more than one  *)
(* branch, execute submits exactly one task per branch and no              *)
(* rupture-subset or background task; with exactly one branch, every       *)
(* rupture index of the source is in exactly one rupture-subset task (the  *)
(* chunks are disjoint, not empty and cover the index set, and there are   *)
(* at most 2 x concurrent_tasks of them) and every background source is in *)
(* exactly one background task (at most concurrent_tasks of them).         *)
(***************************************************************************)
C18_DispatchedExactlyOnce ==
    Dispatched =>
        IF cfg.nbranches > 1
        THEN /\ TasksOf("branch") = DOMAIN tasks
             /\ Len(tasks) = cfg.nbranches
             /\ \A g \in 0..(cfg.nbranches - 1) :
                   Cardinality({i \in DOMAIN tasks :
                       heap[tasks[i].obj].src_group_id = g}) = 1
        ELSE /\ TasksOf("branch") = {}
             /\ \A r \in RupIdx :
                   Cardinality({i \in TasksOf("rupset") :
                       r \in tasks[i].rupset_idx}) = 1
             /\ \A i \in TasksOf("rupset") :
                   tasks[i].rupset_idx # {} /\ tasks[i].rupset_idx \subseteq RupIdx
             /\ Cardinality(TasksOf("rupset")) <= 2 * cfg.concurrent_tasks
             /\ \A b \in BackgroundSources(cfg.sitecol, cfg.max_dist) :
                   Cardinality({i \in TasksOf("bg") :
                       b \in tasks[i].sources}) = 1
             /\ \A i \in TasksOf("bg") :
                   /\ tasks[i].sources # {}
                   /\ tasks[i].sources \subseteq
                         BackgroundSources(cfg.sitecol, cfg.max_dist)
             /\ Cardinality(TasksOf("bg")) <= cfg.concurrent_tasks

\* single branch: the rupture indices went to two tasks and the background
\* sources to two tasks, and execute is over
C18_Witness ==
    /\ pc = "done"
    /\ cfg.nbranches = 1
    /\ Cardinality(TasksOf("rupset")) = 2
    /\ Cardinality(TasksOf("bg")) = 2

\* the steps execute takes from one phase to the next
PhaseSteps ==
    {<<"execute", "branches">>, <<"execute", "single">>,
     <<"branches", "reduce">>,
     <<"single", "rupture_sets">>, <<"rupture_sets", "compose">>,
     <<"compose", "reduce">>,
     <<"reduce", "done">>}

\* how often the result of task i was folded
TimesFolded(i) == Cardinality({k \in DOMAIN folded : folded[k] = i})

(***************************************************************************)
(* C19: the orchestrator follows INIT, FILTER_SITES, DISPATCH, COLLECT,    *)
(* REDUCE, DONE: the site filter is built once before any task is          *)
(* dispatched, all tasks are dispatched before the first result is folded, *)
(* and execute returns the accumulator only after the result of every      *)
(* dispatched task (rupture-subset, branch and background) has been folded *)
(* into it exactly once.                                                   *)
(***************************************************************************)
C19_PhaseOrder ==
    /\ [](/\ src_filter = (IF pc = "execute" THEN 0 ELSE 1)
          /\ tasks # << >> => src_filter = 1
          /\ folded # << >> => Dispatched
          /\ \A i \in DOMAIN tasks :
                /\ TimesFolded(i) <= 1
                /\ TimesFolded(i) = 1 => tasks[i].pc = "finished"
          /\ pc = "done" =>
                /\ \A i \in DOMAIN tasks : TimesFolded(i) = 1
                /\ Len(folded) = Len(tasks))
    /\ [][/\ pc' # pc => <<pc, pc'>> \in PhaseSteps
          /\ Dispatched => Len(tasks') = Len(tasks)
          /\ pc = "done" => acc' = acc /\ folded' = folded]_vars

\* execute has returned after folding background, and rupture-subset
\* results, the last dispatched task first
C19_Witness ==
    /\ pc = "done"
    /\ TasksOf("bg") # {} /\ Cardinality(TasksOf("rupset")) > 1
    /\ Len(folded) = Len(tasks)
    /\ folded[Len(folded)] # Len(tasks)


\* ucerf_classical_hazard_by_branch(ucerf_source, src_filter, gsims,
\* monitor) called on the calculator's only source, nothing else running
ucerf_classical_hazard_by_branch ==
    RunTask(NewTask("branch", 1, RupIdx, {}), heap[1], cfg).t.pm

\* the single-branch path has returned and the group's map is that of the
\* per-branch task
SameMapAsBranch ==
    acc.curves[0] = ucerf_classical_hazard_by_branch.curves

\* ... and the group's effective-rupture count is that of the task
SameCountAsBranch ==
    acc.eff_ruptures = ucerf_classical_hazard_by_branch.eff_ruptures

\* the single-branch path has returned, every task having worked on a
\* source object of its own
SingleBranchDone ==
    /\ pc = "done"
    /\ cfg.nbranches = 1
    /\ cfg.distribute = "processpool"

(***************************************************************************)
(* C21: for the same branch, source, sites and background sources, the     *)
(* single-branch path of execute (rupture-subset tasks plus a background   *)
(* batch folded into group 0) and the per-branch task                      *)
(* ucerf_classical_hazard_by_branch give the same result for the group:    *)
(* the same probability map and the same effective-rupture count, with the *)
(* background sources' effective ruptures counted in both.                 *)
(***************************************************************************)
C21_SingleBranchAsBranchTask ==
    SingleBranchDone => SameMapAsBranch /\ SameCountAsBranch

\* the part of C21 that holds: the probability maps are the same
C21_SameMap == SingleBranchDone => SameMapAsBranch


(***************************************************************************)
(* SpecLogs: init_logs_amqp_send and AMQPHandler (openquake/logs.py)       *)
(***************************************************************************)
\* number of threads of the process
NumThreads == 2
\* number of init_logs_amqp_send calls in a run of the model
MaxInitCalls == 3
\* number of messages published in a run of the model
MaxPublished == 2

Threads == 1..NumThreads
\* the job ids passed to init_logs_amqp_send
JobIds == {Num(1), Num(2)}

\* logs.LEVELS, with the numeric levels of the logging module
LEVELS ==
    [debug |-> 10, info |-> 20, warn |-> 30, error |-> 40, critical |-> 50]
WARNING == 30

\* the level names a caller passes, one of them unknown to LEVELS
LevelNames == {"debug", "verbose"}
\* the loggers records come from (LOG and HAZARD_LOG) and their levels
LoggerNames == {"root", "hazard"}
RecordLevels == {LEVELS["debug"], LEVELS["error"]}

\* set_logger_level(logging.root, level): LEVELS.get(level, WARNING)
set_logger_level(level) ==
    IF level \in DOMAIN LEVELS THEN LEVELS[level] ELSE WARNING

\* str() of a non-negative integer
RECURSIVE Decimal(_)
Decimal(n) ==
    LET digit == <<"0", "1", "2", "3", "4", "5", "6", "7", "8", "9">>
    IN  IF n < 10 THEN digit[n + 1]
        ELSE Decimal(n \div 10) \o digit[(n % 10) + 1]

\* what %s makes of a job id: str(None) is "None"
Str(x) == IF x.kind = "None" THEN "None" ELSE Decimal(x.v)

\* ROUTING_KEY_FORMAT % data
ROUTING_KEY_FORMAT(data) == "oq.job." \o Str(data.job_id) \o "." \o data.name

\* mutant: the job id is stored for every thread of the process
set_job_idProcessWide(mdc, t, job_id) == [u \in Threads |-> job_id]

\* AMQPHandler.set_job_id, run by thread t: _MDC is a threading.local, the
\* attribute is set in the storage of the calling thread only
set_job_id(mdc, t, job_id) == [mdc EXCEPT ![t] = job_id]

\* a thread that is not inside init_logs_amqp_send holds no arguments
NoArgs == [level |-> "", job_id |-> None]

LogsInit ==
    /\ lg = [handlers |-> 0,          \* AMQPHandlers in logging.root.handlers
             level |-> WARNING,       \* level of the root logger
             mdc |-> [t \in Threads |-> None],   \* _MDC.job_id per thread
             tpc |-> [t \in Threads |-> "idle"],
             arg |-> [t \in Threads |-> NoArgs],
             returned |-> [t \in Threads |-> None],
             last |-> None,
             calls |-> 0,
             published |-> << >>]
    /\ AuxOffButLg
    /\ cfg = << >> /\ sp = << >>
    /\ pc = "off" /\ heap = << >> /\ tasks = << >> /\ acc = << >>
    /\ folded = << >>
    /\ src_filter = 0
    /\ mA = << >> /\ mB = << >> /\ mC = << >> /\ mOut = NoOut /\ mpc = "off"
    /\ serial = << >> /\ rng = 0 /\ gens = << >> /\ one = << >>

\* the call has returned normally: kept to state the claims
Returned(l, t, job_id) ==
    [l EXCEPT !.returned[t] = job_id, !.last = job_id]

\* init_logs_amqp_send(level, job_id) in thread t, lines 52-58: the root
\* handlers are scanned; with one AMQPHandler its job id is set, with
\* several the unpacking [handler] = amqp_handlers raises ValueError and
\* the call ends there
InitLogsScan(t, level, job_id) ==
    /\ lg.tpc[t] = "idle"
    /\ lg.calls < MaxInitCalls
    /\ LET l == [lg EXCEPT !.calls = @ + 1]
       IN  lg' = CASE lg.handlers = 0 ->
                        [l EXCEPT !.tpc[t] = "create",
                                  !.arg[t] = [level |-> level,
                                              job_id |-> job_id]]
                   [] lg.handlers = 1 ->
                        Returned([l EXCEPT !.mdc = set_job_id(@, t, job_id)],
                                 t, job_id)
                   [] OTHER -> l
    /\ UNCHANGED <<auxButLg, mergeVars, sampleVars, calcVars>>

\* lines 60-64: the root level is set, a handler is made, given the job id
\* and added to the root logger
InitLogsCreate(t) ==
    /\ lg.tpc[t] = "create"
    /\ lg' = Returned(
                [lg EXCEPT !.tpc[t] = "idle", !.arg[t] = NoArgs,
                           !.level = set_logger_level(lg.arg[t].level),
                           !.mdc = set_job_id(@, t, lg.arg[t].job_id),
                           !.handlers = @ + 1],
                t, lg.arg[t].job_id)
    /\ UNCHANGED <<auxButLg, mergeVars, sampleVars, calcVars>>

\* what one AMQPHandler publishes for a record logged by thread t: of the
\* record's fields the name and the job id; own and last are kept to state
\* the claims
Message(t, name) ==
    LET data == [name |-> name, job_id |-> lg.mdc[t]]
    IN  [data |-> data, routing_key |-> ROUTING_KEY_FORMAT(data),
         own |-> lg.returned[t], last |-> lg.last]

\* thread t logs a record that the root logger hands to its AMQPHandlers;
\* AMQPHandler.emit (lines 114-128) asserts that it has no exc_info (the
\* AssertionError ends the logging call, nothing is published) and
\* publishes it
Emit(t, name, levelno, exc_info) ==
    /\ lg.tpc[t] = "idle"
    /\ lg.handlers > 0
    /\ levelno >= lg.level
    /\ Len(lg.published) + lg.handlers <= MaxPublished
    /\ lg' = IF exc_info THEN lg
             ELSE [lg EXCEPT !.published = @ \o
                                 [h \in 1..lg.handlers |->
                                     Message(t, name)]]
    /\ UNCHANGED <<auxButLg, mergeVars, sampleVars, calcVars>>

LogsNext ==
    \/ \E t \in Threads, level \in LevelNames, job_id \in JobIds :
          InitLogsScan(t, level, job_id)
    \/ \E t \in Threads : InitLogsCreate(t)
    \/ \E t \in Threads, name \in LoggerNames, levelno \in RecordLevels,
          exc_info \in BOOLEAN : Emit(t, name, levelno, exc_info)

SpecLogs == LogsInit /\ [][LogsNext]_vars

\* the message carries job_id in its data and in its routing key
CarriesJobId(m, job_id) ==
    /\ m.data.job_id = job_id
    /\ m.routing_key = "oq.job." \o Str(job_id) \o "." \o m.data.name

(***************************************************************************)
(* C22, as the code has it: every record published through the AMQP        *)
(* handler carries, in its data and in its routing key                     *)
(* oq.job.<job_id>.<logger name>, the job id of the most recent            *)
(* init_logs_amqp_send call that returned in the emitting thread, and None *)
(* when that thread made no such call.                                     *)
(***************************************************************************)
C22_JobIdOfEmittingThread ==
    \A k \in DOMAIN lg.published :
        CarriesJobId(lg.published[k], lg.published[k].own)

(***************************************************************************)
(* C22, as stated: after any sequence of init_logs_amqp_send(level,        *)
(* job_id) calls, every log record emitted afterwards through the AMQP     *)
(* handler, from any thread of the process, is published with the job id   *)
(* of the most recent call in its data and in its routing key.             *)
(***************************************************************************)
C22_JobIdOfLastCall ==
    \A k \in DOMAIN lg.published :
        lg.published[k].last # None =>
            CarriesJobId(lg.published[k], lg.published[k].last)

\* a thread publishes under the job id it set, and another thread, which
\* made no call, publishes under None after that
C22_Witness ==
    \E j, k \in DOMAIN lg.published :
        /\ j < k
        /\ lg.published[j].data.job_id = Num(2)
        /\ lg.published[j].routing_key = "oq.job.2.hazard"
        /\ lg.published[k].last = Num(2)
        /\ lg.published[k].data.job_id = None
        /\ lg.published[k].routing_key = "oq.job.None.root"

====
